---- MODULE Spec2Model ----
(***************************************************************************)
(* go-memsize: GetTotalSize / getTotalSize (memsize.go) as a state machine *)
(* over a Go object graph.                                                 *)
(*                                                                         *)
(* A Go value is a term; storage that is reached through an indirection    *)
(* (a pointer target, a slice's backing array, a map's storage, the value  *)
(* boxed in an interface) is a cell, and cells are what have addresses.    *)
(* The recursion of getTotalSize is an explicit stack of frames.           *)
(***************************************************************************)
EXTENDS Integers, Sequences, FiniteSets

\* ---------------------------------------------------------------- bounds
MaxDepth == 12      \* frames the goroutine stack holds before the runtime aborts
MaxStrLen == 3      \* longest string measured
MaxEntries == 9     \* most entries of the int-keyed maps measured

\* ------------------------------------------------------- program constants
WordSize == 8       \* reflect.Int / reflect.Uint: v.Type().Size() on a 64-bit platform
BucketSize == 48    \* bucketSize := uint64(48)
BucketEntries == 8  \* uint64(v.Len())/8

\* unsafe.Sizeof(v.Interface()): v.Interface() has the static type interface{},
\* so the operand is never evaluated and the result is the size of an
\* interface value (type word + data word), whatever v holds.
SizeofInterface == 2 * WordSize

\* ----------------------------------------------------------------- terms
\* Every term has the same shape:
\*   k  : the reflect.Kind ("invalid" for the zero reflect.Value)
\*   n  : string length, slice length, or for a pointer the index of the
\*        field of the cell it points at (0: the cell's whole value)
\*   c  : slice capacity
\*   nil: the handle is nil
\*   to : the cell a handle refers to
\*   f  : struct fields / array elements, in order
NoCell == [tag |-> "none", of |-> <<>>]

Term(k, n, c, isnil, to, f) ==
    [k |-> k, n |-> n, c |-> c, nil |-> isnil, to |-> to, f |-> f]

Leaf(k) == Term(k, 0, 0, FALSE, NoCell, <<>>)

Invalid == Leaf("invalid")
GoBool == Leaf("bool")
GoInt8 == Leaf("int8")
GoInt16 == Leaf("int16")
GoInt32 == Leaf("int32")
GoInt64 == Leaf("int64")
GoInt == Leaf("int")
Func == Leaf("func")
Str(len) == Term("string", len, 0, FALSE, NoCell, <<>>)
Struct(fields) == Term("struct", 0, 0, FALSE, NoCell, fields)
Array(elems) == Term("array", 0, 0, FALSE, NoCell, elems)
NilPtr == Term("ptr", 0, 0, TRUE, NoCell, <<>>)
NilSlice == Term("slice", 0, 0, TRUE, NoCell, <<>>)
NilMap == Term("map", 0, 0, TRUE, NoCell, <<>>)
NilIface == Term("interface", 0, 0, TRUE, NoCell, <<>>)
Ptr(cell) == Term("ptr", 0, 0, FALSE, cell, <<>>)
FieldPtr(cell, i) == Term("ptr", i, 0, FALSE, cell, <<>>)
Slice(cell, len, cap) == Term("slice", len, cap, FALSE, cell, <<>>)
Map(cell) == Term("map", 0, 0, FALSE, cell, <<>>)
Iface(cell) == Term("interface", 0, 0, FALSE, cell, <<>>)

\* cells
Named(name) == [tag |-> name, of |-> <<>>]
Box(v) == [tag |-> "box", of |-> <<v>>]
Arr(elems) == [tag |-> "arr", of |-> elems]
HMap(entries) == [tag |-> "hmap", of |-> entries]

Any(v) == Iface(Box(v))
SliceOf(elems, len) == Slice(Arr(elems), len, Len(elems))
MapOf(entries) == Map(HMap(entries))

\* ------------------------------------------------------------- the heap
\* The content of the named cells: the data the measured programs build.
\*   A, B   two nodes that point at each other (A -> B -> A)
\*   self   a node whose pointer field points back at itself
\*   S      a record whose first field is also pointed at directly (&s.X)
\*   ns, nm variables holding a nil slice and a nil map
\*   rs     the backing array of a slice that contains itself (type T []T)
\*   rm     the storage of a map that holds itself as an interface value
\*   john, jane   the Person graph of TestComplexStructure
\*   zero   the backing store of an empty, non-nil slice
NamedContent(name) ==
    CASE name = "A" -> Struct(<<GoInt, Ptr(Named("B"))>>)
      [] name = "B" -> Struct(<<GoInt, Ptr(Named("A"))>>)
      [] name = "self" -> Struct(<<GoInt, Ptr(Named("self"))>>)
      [] name = "S" -> Struct(<<GoInt, Str(2)>>)
      [] name = "ns" -> NilSlice
      [] name = "nm" -> NilMap
      [] name = "rs" -> Array(<<Slice(Named("rs"), 1, 1)>>)
      [] name = "rm" -> Term("hmap", 0, 0, FALSE, NoCell,
                             <<Str(1), Any(Map(Named("rm")))>>)
      [] name = "john" ->
           Struct(<<Str(3),
                    SliceOf(<<Ptr(Named("jane"))>>, 1),
                    MapOf(<<Str(3), Any(GoInt),
                            Str(2), Any(SliceOf(<<Str(1), Str(2)>>, 2))>>)>>)
      [] name = "jane" ->
           Struct(<<Str(3),
                    SliceOf(<<Ptr(Named("john"))>>, 1),
                    MapOf(<<Str(3), Any(GoInt)>>)>>)
      [] OTHER -> Array(<<>>)

\* What a cell holds.
Content(cell) ==
    CASE cell.tag = "box" -> cell.of[1]
      [] cell.tag = "arr" -> Array(cell.of)
      [] cell.tag = "hmap" -> Term("hmap", 0, 0, FALSE, NoCell, cell.of)
      [] OTHER -> NamedContent(cell.tag)

\* ---------------------------------------------------------------- layout
Max(a, b) == IF a >= b THEN a ELSE b
RoundUp(x, a) == ((x + a - 1) \div a) * a

RECURSIVE Align(_)
Align(t) ==
    CASE t.k \in {"bool", "int8"} -> 1
      [] t.k = "int16" -> 2
      [] t.k = "int32" -> 4
      [] t.k = "struct" ->
           IF t.f = <<>> THEN 1
           ELSE LET RECURSIVE MaxAlign(_)
                    MaxAlign(i) == IF i = 0 THEN 1
                                   ELSE Max(Align(t.f[i]), MaxAlign(i - 1))
                IN MaxAlign(Len(t.f))
      [] t.k = "array" -> IF t.f = <<>> THEN 1 ELSE Align(t.f[1])
      [] OTHER -> WordSize

\* reflect.Type.Size(): the bytes a value of the type occupies in place.
RECURSIVE StaticSize(_)
RECURSIVE EndOfField(_, _)
\* The offset just past field i of struct t (0 for i = 0).
EndOfField(t, i) ==
    IF i = 0 THEN 0
    ELSE RoundUp(EndOfField(t, i - 1), Align(t.f[i])) + StaticSize(t.f[i])

StaticSize(t) ==
    CASE t.k \in {"bool", "int8"} -> 1
      [] t.k = "int16" -> 2
      [] t.k = "int32" -> 4
      [] t.k \in {"int64", "int", "ptr", "map", "func"} -> WordSize
      [] t.k \in {"string", "interface"} -> 2 * WordSize
      [] t.k = "slice" -> 3 * WordSize
      [] t.k = "struct" -> RoundUp(EndOfField(t, Len(t.f)), Align(t))
      [] t.k = "array" -> IF t.f = <<>> THEN 0 ELSE Len(t.f) * StaticSize(t.f[1])
      [] OTHER -> 0

FieldOffset(t, i) == RoundUp(EndOfField(t, i - 1), Align(t.f[i]))

\* v.Elem() of a non-nil pointer.
PtrElem(p) == IF p.n = 0 THEN Content(p.to) ELSE Content(p.to).f[p.n]

\* uintptr(v.UnsafePointer()): the address held by the pointer.  A pointer to
\* a record and a pointer to its first field hold the same address.
PtrAddr(p) ==
    [cell |-> p.to,
     off |-> IF p.n = 0 THEN 0 ELSE FieldOffset(Content(p.to), p.n)]

\* ---------------------------------------------------------------- inputs
\* Values the measured programs store in fields, elements and map entries.
SharedSlice == SliceOf(<<GoInt, GoInt>>, 2)
SharedMap == MapOf(<<GoInt, GoInt>>)

FieldVals ==
    {GoInt, GoInt32, GoBool, Str(1), Func, NilPtr, NilSlice, NilMap, NilIface,
     Ptr(Named("A")), Ptr(Named("B")), Ptr(Named("S")), FieldPtr(Named("S"), 1),
     Ptr(Named("ns")), SharedSlice, SharedMap, Any(Str(2))}

\* Element types: the values of one Go type each.
ElemClasses ==
    {{GoInt}, {Str(1), Str(2)}, {Func},
     {NilPtr, Ptr(Named("A")), Ptr(Named("B"))},
     {NilPtr, Ptr(Named("S"))},
     {NilIface, Any(GoInt), Any(Ptr(Named("S"))), Any(FieldPtr(Named("S"), 1)),
      Any(SharedSlice)},
     {Struct(<<Func, Func>>)}}

Seqs12(S) == {<<x>> : x \in S} \cup {<<x, y>> : x, y \in S}

ElemSeqs == UNION {Seqs12(cl) : cl \in ElemClasses}

RECURSIVE IntEntries(_)
IntEntries(n) == IF n = 0 THEN <<>> ELSE IntEntries(n - 1) \o <<GoInt, GoInt>>

Leaves ==
    {GoBool, GoInt8, GoInt16, GoInt32, GoInt64, GoInt, Func}
      \cup {Str(k) : k \in 0..MaxStrLen}

NamedRoots ==
    {Ptr(Named(c)) : c \in {"A", "B", "self", "S", "ns", "nm", "john"}}
      \cup {Slice(Named("rs"), 1, 1), Map(Named("rm")), Slice(Named("zero"), 0, 0)}

StructRoots ==
    {Struct(<<>>)} \cup {Struct(fs) : fs \in Seqs12(FieldVals)}

ArrayRoots == {Array(es) : es \in ElemSeqs}

SliceRoots == {SliceOf(es, len) : es \in ElemSeqs, len \in 0..2}

AnyVals ==
    {GoInt, Str(2), Func, Ptr(Named("A")), Ptr(Named("S")), FieldPtr(Named("S"), 1),
     SharedSlice, SharedMap}

MapRoots ==
    {MapOf(IntEntries(n)) : n \in 0..MaxEntries}
      \cup {MapOf(<<Str(1), Any(x)>>) : x \in AnyVals}
      \cup {MapOf(<<Str(1), Any(x), Str(1), Any(y)>>) : x, y \in AnyVals}

\* What a caller can hand to GetTotalSize(v interface{}): reflect.ValueOf
\* unwraps the interface, so the root is the zero Value (a nil interface) or
\* a value of a concrete kind.
Roots ==
    {Invalid, NilPtr, NilSlice, NilMap}
      \cup Leaves \cup NamedRoots \cup StructRoots \cup ArrayRoots
      \cup {r \in SliceRoots : r.n <= r.c} \cup MapRoots

\* A program measures two values in a row: the same value twice, a string and
\* the string with bytes appended, or a slice and the slice with one more
\* element of its backing array in use.
Programs ==
    {<<r, r>> : r \in Roots}
      \cup {<<Str(n), Str(n + k)>> : n, k \in 0..MaxStrLen}
      \cup {<<SliceOf(es, len), SliceOf(es, len + 1)>> :
                es \in {e \in ElemSeqs : Len(e) = 2}, len \in 0..1}

\* ----------------------------------------------------------------- state
VARIABLES
    roots,    \* the two values the program measures, in order
    res,      \* the results GetTotalSize has returned so far
    pc,       \* "idle": between calls; "run": inside a call; "overflow": aborted
    stack,    \* the active getTotalSize calls, outermost first
    seen,     \* the visited map of the running call: addresses marked true
    last,     \* the most recent return of getTotalSize: value, size, caller's kind
    contrib,  \* what each direct child of the root returned, in visiting order
    visits    \* per allocation a handle reached: how often its content was measured

vars == <<roots, res, pc, stack, seen, last, contrib, visits>>

NoReturn == [v |-> Invalid, size |-> 0, via |-> "none"]

\* One activation of getTotalSize(v, seen, path).
\*   st   "new": at the top of the function; "run": inside a case, calling
\*        getTotalSize on the children left in todo
\*   rem  the map entries the iterator has not yielded yet
\*   acc  the bytes summed so far
Frame(v) == [v |-> v, st |-> "new", todo |-> <<>>, rem |-> {}, acc |-> 0]

Top == stack[Len(stack)]

AtTop(kinds) == pc = "run" /\ stack # <<>> /\ Top.st = "new" /\ Top.v.k \in kinds

\* The allocation a handle refers to, as the bookkeeping of visits names it.
Alloc(h) == [k |-> h.k, cell |-> h.to, n |-> IF h.k = "ptr" THEN h.n ELSE 0]

Note(vs, key, measured) ==
    [x \in DOMAIN vs \cup {key} |->
        (IF x \in DOMAIN vs THEN vs[x] ELSE 0)
          + (IF x = key /\ measured THEN 1 ELSE 0)]

Init ==
    /\ roots \in Programs
    /\ res = <<>>
    /\ pc = "idle"
    /\ stack = <<>>
    /\ seen = {}
    /\ last = NoReturn
    /\ contrib = <<>>
    /\ visits = <<>>

\* return size: the top activation hands its result to its caller, or, for
\* the outermost one, GetTotalSize returns it.
Deliver(size) ==
    LET d == Len(stack) IN
    /\ last' = [v |-> Top.v, size |-> size,
                via |-> IF d = 1 THEN "root" ELSE stack[d - 1].v.k]
    /\ IF d = 1
       THEN /\ stack' = <<>>
            /\ res' = Append(res, size)
            /\ pc' = "idle"
            /\ contrib' = contrib
       ELSE /\ stack' = [SubSeq(stack, 1, d - 1) EXCEPT ![d - 1].acc = @ + size]
            /\ res' = res
            /\ pc' = pc
            /\ contrib' = IF d = 2 THEN Append(contrib, size) ELSE contrib

\* The top activation enters a case that recurses: it has charged `own` and
\* will call getTotalSize on each of `kids` in order.
Enter(own, kids, entries) ==
    /\ stack' = [stack EXCEPT ![Len(stack)] =
                    [@ EXCEPT !.st = "run", !.acc = own, !.todo = kids, !.rem = entries]]
    /\ UNCHANGED <<res, pc, last, contrib>>

\* GetTotalSize(v): val := reflect.ValueOf(v); getTotalSize(val, make(visited), "root")
GetTotalSize ==
    /\ pc = "idle"
    /\ Len(res) < Len(roots)
    /\ pc' = "run"
    /\ stack' = <<Frame(roots[Len(res) + 1])>>
    /\ seen' = {}
    /\ contrib' = <<>>
    /\ visits' = <<>>
    /\ UNCHANGED <<roots, res, last>>

\* ------------------------------------------------------------ getTotalSize
\* The first switch: fixed widths of the primitive kinds.
PrimKinds == {"bool", "int8", "int16", "int32", "int64", "int"}

PrimSize(t) ==
    CASE t.k \in {"bool", "int8"} -> 1
      [] t.k = "int16" -> 2
      [] t.k = "int32" -> 4
      [] t.k = "int64" -> 8
      [] t.k = "int" -> StaticSize(t)

\* headerSize + dataSize of a string
StringSize(t) == SizeofInterface + t.n

\* v.Index(0) .. v.Index(v.Len()-1)
SliceElems(t) == SubSeq(Content(t.to).f, 1, t.n)

ArraySize_OfLength(t) == IF t.n > 0 THEN t.n * StaticSize(Content(t.to).f[1]) ELSE 0

\* arraySize: v.Cap() * v.Type().Elem().Size()
ArraySize(t) == IF t.c > 0 THEN t.c * StaticSize(Content(t.to).f[1]) ELSE 0

\* headerSize + arraySize of a non-nil slice
SliceOwnSize(t) == SizeofInterface + ArraySize(t)

\* v.Len() of a map
MapLen(t) == Len(Content(t.to).f) \div 2

BucketsSize_RoundedUp(n) == ((n + BucketEntries - 1) \div BucketEntries) * BucketSize

\* bucketsSize := (uint64(v.Len())/8 + 1) * bucketSize
BucketsSize(n) == (n \div BucketEntries + 1) * BucketSize

\* headerSize + bucketsSize of a non-nil map
MapOwnSize(t) == SizeofInterface + BucketsSize(MapLen(t))

\* structSize := uint64(unsafe.Sizeof(v.Interface()))
StructOwnSize(t) == SizeofInterface

DefaultSize_Nothing(t) == 0

\* the default case: arrays, functions, channels, ... are charged one
\* unsafe.Sizeof(v.Interface()) and nothing below them is visited
DefaultSize(t) == SizeofInterface

NilSize_HeaderForEveryKind(t) == SizeofInterface

\* What a nil handle returns: a nil interface and a nil pointer the
\* unsafe.Sizeof(v.Interface()) of their case, a nil slice and a nil map 0.
NilSize(t) == IF t.k \in {"interface", "ptr"} THEN SizeofInterface ELSE 0

\* if !v.IsValid() { return 0 }
VisitInvalid ==
    /\ AtTop({"invalid"})
    /\ Deliver(0)
    /\ UNCHANGED <<roots, seen, visits>>

VisitPrimitive ==
    /\ AtTop(PrimKinds)
    /\ Deliver(PrimSize(Top.v))
    /\ UNCHANGED <<roots, seen, visits>>

\* case reflect.Interface: no look at seen; the held value is always measured
VisitInterface ==
    /\ AtTop({"interface"})
    /\ IF Top.v.nil
       THEN /\ Deliver(NilSize(Top.v))
            /\ visits' = visits
       ELSE /\ Enter(SizeofInterface, <<Content(Top.v.to)>>, {})
            /\ visits' = Note(visits, Alloc(Top.v), TRUE)
    /\ UNCHANGED <<roots, seen>>

\* case reflect.Ptr
VisitPtr ==
    /\ AtTop({"ptr"})
    /\ IF Top.v.nil
       THEN /\ Deliver(NilSize(Top.v))
            /\ UNCHANGED <<seen, visits>>
       ELSE IF PtrAddr(Top.v) \in seen
       THEN /\ Deliver(SizeofInterface)
            /\ seen' = seen
            /\ visits' = Note(visits, Alloc(Top.v), FALSE)
       ELSE /\ seen' = seen \cup {PtrAddr(Top.v)}
            /\ Enter(SizeofInterface, <<PtrElem(Top.v)>>, {})
            /\ visits' = Note(visits, Alloc(Top.v), TRUE)
    /\ UNCHANGED roots

\* case reflect.Slice
VisitSlice ==
    /\ AtTop({"slice"})
    /\ IF Top.v.nil
       THEN /\ Deliver(NilSize(Top.v))
            /\ visits' = visits
       ELSE /\ Enter(SliceOwnSize(Top.v), SliceElems(Top.v), {})
            /\ visits' = Note(visits, Alloc(Top.v), TRUE)
    /\ UNCHANGED <<roots, seen>>

\* case reflect.String
VisitString ==
    /\ AtTop({"string"})
    /\ Deliver(StringSize(Top.v))
    /\ UNCHANGED <<roots, seen, visits>>

\* case reflect.Map
VisitMap ==
    /\ AtTop({"map"})
    /\ IF Top.v.nil
       THEN /\ Deliver(NilSize(Top.v))
            /\ visits' = visits
       ELSE /\ Enter(MapOwnSize(Top.v), <<>>, 1..MapLen(Top.v))
            /\ visits' = Note(visits, Alloc(Top.v), TRUE)
    /\ UNCHANGED <<roots, seen>>

\* iter.Next(): the runtime yields the entries in an order of its choosing;
\* the key is measured, then the value.
MapIterNext ==
    /\ pc = "run" /\ stack # <<>>
    /\ Top.st = "run" /\ Top.todo = <<>> /\ Top.rem # {}
    /\ \E e \in Top.rem :
          LET entries == Content(Top.v.to).f IN
          stack' = [stack EXCEPT ![Len(stack)] =
                      [@ EXCEPT !.todo = <<entries[2 * e - 1], entries[2 * e]>>,
                                !.rem = @ \ {e}]]
    /\ UNCHANGED <<roots, res, pc, seen, last, contrib, visits>>

\* case reflect.Struct
VisitStruct ==
    /\ AtTop({"struct"})
    /\ Enter(StructOwnSize(Top.v), Top.v.f, {})
    /\ UNCHANGED <<roots, seen, visits>>

\* default:
VisitDefault ==
    /\ AtTop({"array", "func"})
    /\ Deliver(DefaultSize(Top.v))
    /\ UNCHANGED <<roots, seen, visits>>

\* A recursive call getTotalSize(child, seen, ...) from inside a case.
Recurse ==
    /\ pc = "run" /\ stack # <<>>
    /\ Top.st = "run" /\ Top.todo # <<>>
    /\ Len(stack) < MaxDepth
    /\ stack' = Append([stack EXCEPT ![Len(stack)].todo = Tail(@)], Frame(Head(Top.todo)))
    /\ UNCHANGED <<roots, res, pc, seen, last, contrib, visits>>

\* The recursion has no depth limit of its own: when the goroutine stack is
\* exhausted the runtime aborts the program (fatal error: stack overflow) and
\* GetTotalSize never returns.
StackOverflow ==
    /\ pc = "run" /\ stack # <<>>
    /\ Top.st = "run" /\ Top.todo # <<>>
    /\ Len(stack) >= MaxDepth
    /\ pc' = "overflow"
    /\ UNCHANGED <<roots, res, stack, seen, last, contrib, visits>>

\* The end of a case that recursed: return the sum.
Return ==
    /\ pc = "run" /\ stack # <<>>
    /\ Top.st = "run" /\ Top.todo = <<>> /\ Top.rem = {}
    /\ Deliver(Top.acc)
    /\ UNCHANGED <<roots, seen, visits>>

Next ==
    \/ GetTotalSize
    \/ VisitInvalid
    \/ VisitPrimitive
    \/ VisitInterface
    \/ VisitPtr
    \/ VisitSlice
    \/ VisitString
    \/ VisitMap
    \/ MapIterNext
    \/ VisitStruct
    \/ VisitDefault
    \/ Recurse
    \/ StackOverflow
    \/ Return

Spec == Init /\ [][Next]_vars

\* ------------------------------------------------------------ well-formedness
TypeOK ==
    /\ pc \in {"idle", "run", "overflow"}
    /\ Len(res) <= 2
    /\ Len(stack) <= MaxDepth

\* ------------------------------------------------------------ observations
\* A call has just returned: res, contrib and visits are those of that call.
Returned == pc = "idle" /\ res # <<>>
CallRoot == roots[Len(res)]
CallResult == res[Len(res)]
BothReturned == pc = "idle" /\ Len(res) = 2

RECURSIVE Sum(_)
Sum(q) == IF q = <<>> THEN 0 ELSE Head(q) + Sum(Tail(q))

CeilDiv(a, b) == (a + b - 1) \div b

IsHandle(t) == t.k \in {"ptr", "slice", "map", "interface"} /\ ~t.nil

\* The non-nil handles stored in a value itself (not behind an indirection).
RECURSIVE HandlesIn(_)
HandlesIn(t) ==
    IF IsHandle(t) THEN {t}
    ELSE UNION {HandlesIn(t.f[i]) : i \in 1..Len(t.f)}

\* The value(s) a handle gives access to.
Target(h) ==
    CASE h.k = "ptr" -> PtrElem(h)
      [] h.k = "slice" -> Array(SliceElems(h))
      [] OTHER -> Content(h.to)

RECURSIVE ReachClosure(_)
ReachClosure(hs) ==
    LET more == hs \cup UNION {HandlesIn(Target(h)) : h \in hs}
    IN IF more = hs THEN hs ELSE ReachClosure(more)

\* The allocations reachable from a value.
ReachCells(t) == {h.to : h \in ReachClosure(HandlesIn(t))}

\* A cycle that passes through no pointer: the only roots of the heap above
\* from which getTotalSize meets its own argument again with seen unchanged.
UnguardedCycle(t) == t \in {Slice(Named("rs"), 1, 1), Map(Named("rm"))}

\* The stack bound is reached by unbounded recursion only, never by the depth
\* of a graph the traversal gets through.
OverflowOnlyOnUnguardedCycle ==
    pc = "overflow" => UnguardedCycle(roots[Len(res) + 1])

\* ------------------------------------------------------------------ claims

\* C1: GetTotalSize terminates and returns a count for every finite object
\* graph, cycles through slices and maps included: no call ends in the
\* runtime's stack-overflow abort.
C1_AlwaysReturns == pc # "overflow"

\* C2: when a call has returned, the payload behind every non-nil pointer it
\* met was measured exactly once; of two equal non-nil pointers in the fields
\* of the root, the first is charged handle plus payload and the second the
\* handle alone; and the cycle A -> B -> A totals the three pointer handles
\* met and each node's own cost and integer field once.
C2_PointerPayloadOnce ==
    Returned =>
      /\ \A a \in DOMAIN visits : a.k = "ptr" => visits[a] = 1
      /\ (/\ CallRoot.k = "struct" /\ Len(CallRoot.f) = 2
          /\ CallRoot.f[1] = CallRoot.f[2]
          /\ CallRoot.f[1].k = "ptr" /\ ~CallRoot.f[1].nil)
         => contrib[2] = SizeofInterface /\ contrib[1] >= contrib[2]
      /\ CallRoot = Ptr(Named("A"))
         => CallResult = 3 * SizeofInterface + 2 * (SizeofInterface + WordSize)

\* C3: when a call has returned, no allocation with an identity (pointer
\* target, slice backing array, map storage, boxed interface value) has had
\* its content measured a second time, however many handles reached it.
C3_AllocationContentOnce ==
    Returned => \A a \in DOMAIN visits : visits[a] <= 1

\* C4: when a call has returned, every allocation reachable from the root
\* (through pointers, interfaces, slices, arrays, maps and struct fields) has
\* been visited and measured at least once.
C4_AllReachableCharged ==
    Returned =>
      \A c \in ReachCells(CallRoot) :
         \E a \in DOMAIN visits : a.cell = c /\ visits[a] >= 1

\* C5: two calls on the same unmutated value return the same total.
C5_SameResultTwice ==
    (BothReturned /\ roots[1] = roots[2]) => res[1] = res[2]

\* C6 (as stated): a nil pointer and a nil interface return their handle
\* cost; a nil slice or map returns 0 when bare and its handle cost when
\* reached through a pointer; an invalid root yields 0.
C6_NilHandling ==
    /\ (last.v.nil /\ last.v.k \in {"ptr", "interface"}) => last.size = SizeofInterface
    /\ (last.v.nil /\ last.v.k \in {"slice", "map"}) =>
          last.size = (IF last.via = "ptr" THEN SizeofInterface ELSE 0)
    /\ (Returned /\ CallRoot = Invalid) => CallResult = 0

\* C6 (amended): a nil pointer and a nil interface return their handle cost;
\* a nil slice or map returns 0 wherever it is met, so that a pointer to one
\* totals the pointer's handle alone; an invalid root yields 0.
C6_NilHandlingAmended ==
    /\ (last.v.nil /\ last.v.k \in {"ptr", "interface"}) => last.size = SizeofInterface
    /\ (last.v.nil /\ last.v.k \in {"slice", "map"}) => last.size = 0
    /\ (Returned /\ CallRoot \in {Ptr(Named("ns")), Ptr(Named("nm"))})
          => CallResult = SizeofInterface
    /\ (Returned /\ CallRoot = Invalid) => CallResult = 0

C6_Witness ==
    /\ last.v = NilSlice /\ last.via = "ptr"
    /\ pc = "run"

\* C7: a string with k bytes appended measures exactly k more; a slice with
\* one more element of its backing array in use measures more by exactly
\* what that element contributed.
C7_ContentMonotone ==
    BothReturned =>
      /\ (roots[1].k = "string" /\ roots[2].k = "string" /\ roots[2].n >= roots[1].n)
           => res[2] = res[1] + (roots[2].n - roots[1].n)
      /\ (/\ IsHandle(roots[1]) /\ roots[1].k = "slice"
          /\ roots[2] = [roots[1] EXCEPT !.n = @ + 1])
           => res[2] = res[1] + contrib[roots[2].n]

C7_Witness ==
    /\ BothReturned
    /\ roots[1] = SliceOf(<<Ptr(Named("A")), Ptr(Named("B"))>>, 1)
    /\ roots[2] = SliceOf(<<Ptr(Named("A")), Ptr(Named("B"))>>, 2)
    /\ res[2] = res[1] + SizeofInterface

\* C8: every non-nil input measures more than 0, and a non-nil pointer to a
\* struct more than the pointer alone.
C8_NonNilPositive ==
    Returned =>
      /\ (CallRoot.k # "invalid" /\ ~CallRoot.nil) => CallResult > 0
      /\ (CallRoot.k = "ptr" /\ ~CallRoot.nil /\ PtrElem(CallRoot).k = "struct")
           => CallResult > StaticSize(CallRoot)

C8_Witness ==
    /\ Returned
    /\ CallRoot = Ptr(Named("john"))
    /\ CallResult > 100

\* C9 (as stated): a non-nil map of n entries measures
\* header + B * ceil(n / E) + the sum over its entries of key and value.
C9_MapBucketsCeil ==
    (Returned /\ CallRoot.k = "map" /\ ~CallRoot.nil) =>
      CallResult = SizeofInterface
                     + BucketSize * CeilDiv(MapLen(CallRoot), BucketEntries)
                     + Sum(contrib)

\* C9 (amended): a non-nil map of n entries measures
\* header + B * (floor(n / E) + 1) + the sum over its entries of key and
\* value: B for n = 0..7, 2B for n = 8.
C9_MapBucketsFloorPlusOne ==
    (Returned /\ CallRoot.k = "map" /\ ~CallRoot.nil) =>
      /\ Len(contrib) = 2 * MapLen(CallRoot)
      /\ CallResult = SizeofInterface
                        + BucketSize * ((MapLen(CallRoot) \div BucketEntries) + 1)
                        + Sum(contrib)

C9_Witness ==
    /\ Returned
    /\ CallRoot = MapOf(IntEntries(8))
    /\ CallResult = SizeofInterface + 2 * BucketSize + 8 * (WordSize + WordSize)

\* The sum of the static sizes of a struct's declared fields.
FieldsStaticSize(t) == Sum([i \in 1..Len(t.f) |-> StaticSize(t.f[i])])

\* C10: the fixed cost charged per kind is one word for a pointer, two words
\* for a string header, three words for a slice header and, for a struct,
\* the sum of its fields' static sizes.
C10_HandleCosts ==
    Returned =>
      /\ CallRoot.k = "ptr" => CallResult = WordSize + Sum(contrib)
      /\ CallRoot.k = "string" => CallResult = 2 * WordSize + CallRoot.n
      /\ IsHandle(CallRoot) /\ CallRoot.k = "slice"
           => CallResult = 3 * WordSize + ArraySize(CallRoot) + Sum(contrib)
      /\ CallRoot.k = "struct"
           => CallResult = FieldsStaticSize(CallRoot) + Sum(contrib)

====
